---- MODULE Spec2Model ----
(***************************************************************************)
(* Logging and native-stream capture of open-runtimes/types-for-go.        *)
(*                                                                         *)
(* The repository holds three versions of the Logger:                      *)
(*   "main"         src/main.go                  (package types)           *)
(*   "types"        src/unnamed/part_001:418-780 (package types)           *)
(*   "openruntimes" src/unnamed/part_001:1-416   (package openruntimes)    *)
(* They differ in the receivers of the Logger methods (value or pointer),  *)
(* in the kind Context.Error passes to Write and in the target handed to   *)
(* log.SetOutput.  The version is fixed in the initial state.              *)
(***************************************************************************)
EXTENDS Integers, Sequences, FiniteSets, TLC

VARIABLES
    version,        \* which of the three Logger sources runs
    logger,         \* the caller's Logger value (struct fields)
    files,          \* the two destination files behind StreamLogs / StreamErrors
    osStdout,       \* os.Stdout
    osStderr,       \* os.Stderr
    logOutput,      \* the writer installed by log.SetOutput
    nSessions,      \* number of os.Pipe() pairs handed out so far
    pipes,          \* pipes[s][k]: the pipe of session s for stream k
    drains,         \* drains[s][k]: the goroutine copying pipes[s][k]
    mainPc,         \* position of the invoking thread
    customLogs,     \* local of RevertNativeLogs
    customErrors,   \* local of RevertNativeLogs
    pending,        \* the write to os.Stdout / os.Stderr the thread is inside
    pure,           \* the last call of a Response method or of NewLogger
    hist            \* observations of the run (no effect on the program)

vars == <<version, logger, files, osStdout, osStderr, logOutput, nSessions,
          pipes, drains, mainPc, customLogs, customErrors, pending, pure, hist>>

-----------------------------------------------------------------------------
(* Bounds *)

MaxSessions == 1
MaxNative == 2
MaxWriteCalls == 3
MaxAdvisories == 2
MaxEndCalls == 2
PipeCap == 1

-----------------------------------------------------------------------------
(* Constants of the program *)

LOGGER_TYPE_LOG == "log"
LOGGER_TYPE_ERROR == "error"

Kinds == {LOGGER_TYPE_LOG, LOGGER_TYPE_ERROR}

Versions == {"main", "types", "openruntimes"}

\* Receivers: func (l *Logger) or func (l Logger).
PtrWrite(v) == v = "openruntimes"
PtrEnd(v) == v \in {"types", "openruntimes"}
PtrCapture(v) == v = "openruntimes"

\* The kind Context.Error hands to Write.
ErrorKind(v) == IF v = "main" THEN LOGGER_TYPE_LOG ELSE LOGGER_TYPE_ERROR

\* Context.Log / Context.Error of package openruntimes append "\n" to a string.
ContextSuffix(v) == IF v = "openruntimes" THEN <<"\n">> ELSE <<>>

\* The stream whose pipe log.SetOutput receives in OverrideNativeLogs.
LogPackageKind(v) == IF v = "openruntimes" THEN LOGGER_TYPE_ERROR ELSE LOGGER_TYPE_LOG

Advisory == <<"Native logs detected. Use context.Log() or context.Error() for better experience.">>

\* The n-th byte the function writes to a standard stream.
NativeBytes == <<"a", "b", "c", "d">>
Sessions == 1..MaxSessions

-----------------------------------------------------------------------------
(* Handles: *os.File values and channels, nil included *)

H(t, s, k) == [t |-> t, s |-> s, k |-> k]
NilH == H("nil", 0, "none")
OrigStdout == H("tty", 0, LOGGER_TYPE_LOG)
OrigStderr == H("tty", 0, LOGGER_TYPE_ERROR)
FileH(k) == H("file", 0, k)
PipeW(s, k) == H("pipe", s, k)
Chan(s, k) == H("chan", s, k)

-----------------------------------------------------------------------------
(* NewLogger *)

Statuses == {"", "enabled", "disabled"}

NewLogger(status) ==
    LET enabled == status = "" \/ status = "enabled"
    IN [Enabled |-> enabled,
        IncludesNativeInfo |-> FALSE,
        StreamLogs |-> IF enabled THEN FileH(LOGGER_TYPE_LOG) ELSE NilH,
        StreamErrors |-> IF enabled THEN FileH(LOGGER_TYPE_ERROR) ELSE NilH,
        NativeStreamLogs |-> NilH,
        NativeStreamErrors |-> NilH,
        WriterLogs |-> NilH,
        WriterErrors |-> NilH,
        NativeLogsCache |-> NilH,
        NativeErrorsCache |-> NilH]

NewFile == [content |-> <<>>, closed |-> FALSE, closeCalls |-> 0, writeCalls |-> 0]

-----------------------------------------------------------------------------
(* os.File.Write and os.File.Close on a destination handle *)

\* stream.Write(bytes): a nil handle is rejected before anything happens; a
\* closed file rejects the bytes; an open file appends them.
StreamWrite(fs, stream, data) ==
    IF stream.t # "file" THEN fs
    ELSE IF fs[stream.k].closed
         THEN [fs EXCEPT ![stream.k].writeCalls = @ + 1]
         ELSE [fs EXCEPT ![stream.k].writeCalls = @ + 1,
                         ![stream.k].content = @ \o data]

StreamClose(fs, stream) ==
    IF stream.t # "file" THEN fs
    ELSE [fs EXCEPT ![stream.k].closed = TRUE,
                    ![stream.k].closeCalls = @ + 1]

-----------------------------------------------------------------------------
(* Logger.Write *)

\* Message shapes of the type switch in Write.
StringMsg(s) == [shape |-> "string", s |-> s]
LogMsg(s) == [shape |-> "Log", s |-> s]
ValueMsg(s, ok) == [shape |-> "value", s |-> s, marshalOk |-> ok]

\* The messages of the runs that follow the capture session, and those of the
\* runs that follow the type switches.
Msgs == {StringMsg(<<"m">>)}
Messages == {StringMsg(<<"m">>), LogMsg(<<"m">>),
             ValueMsg(<<"v">>, TRUE), ValueMsg(<<"v">>, FALSE)}

\* json.Marshal, fmt.Sprintf("%v", .) and fmt.Sprintf("%#v", .) of a message.
JsonMarshal(m) == <<"json">> \o m.s
SprintfV(m) == <<"%v">> \o m.s
SprintfSharpV(m) == <<"%#v">> \o m.s

Resolve(m) ==
    CASE m.shape = "string" -> m.s
      [] m.shape = "Log" -> m.s
      [] m.shape = "value" -> IF m.marshalOk THEN JsonMarshal(m) ELSE SprintfV(m)

\* What Context.Log / Context.Error hand to Write: package openruntimes
\* renders the message itself, the other two pass it on.
ContextMessage(v, m) ==
    IF v = "openruntimes"
    THEN IF m.shape = "string"
         THEN StringMsg(m.s \o ContextSuffix(v))
         ELSE StringMsg(SprintfSharpV(m) \o ContextSuffix(v))
    ELSE m

SelectStream(l, xtype) ==
    IF xtype = LOGGER_TYPE_ERROR THEN l.StreamErrors ELSE l.StreamLogs

\* The latch test at the head of Write.
NeedsAdvisory(l, xnative) == xnative /\ ~l.IncludesNativeInfo

\* Write(message, xtype, xnative) run on receiver l with the files fs.  The
\* result holds the files, the receiver after the call and the number of
\* advisory lines the call emitted.  With a value receiver the recursive call
\* runs on a copy of l, with a pointer receiver on l itself.
RECURSIVE LoggerWrite(_, _, _, _, _, _)
LoggerWrite(v, fs, l, message, xtype, xnative) ==
    LET adv == NeedsAdvisory(l, xnative)
        l1 == IF adv THEN [l EXCEPT !.IncludesNativeInfo = TRUE] ELSE l
        inner == IF adv
                 THEN LoggerWrite(v, fs, l1, StringMsg(Advisory), xtype, xnative)
                 ELSE [files |-> fs, logger |-> l1, advisories |-> 0]
        l2 == IF adv /\ PtrWrite(v) THEN inner.logger ELSE l1
    IN [files |-> StreamWrite(inner.files, SelectStream(l2, xtype), Resolve(message)),
        logger |-> l2,
        advisories |-> inner.advisories + (IF adv THEN 1 ELSE 0)]

\* What the caller's Logger is after calling Write on it.
AfterWrite(v, l, res) == IF PtrWrite(v) THEN res.logger ELSE l

-----------------------------------------------------------------------------
(* Initial state: the process streams are the terminal's, one Logger has   *)
(* been built by NewLogger, nothing is captured.                           *)

NoPipe == [state |-> "absent", buf |-> <<>>]
NoDrain == [pc |-> "none", acc |-> <<>>]
NoPending == [h |-> NilH, k |-> "none", data |-> <<>>]
NoCall == [op |-> "none"]

InitHist ==
    [advisories |-> 0,
     native |-> FALSE,
     firstNative |-> "none",
     nativeCount |-> 0,
     written |-> [k \in Kinds |-> <<>>],
     emitted |-> <<>>,
     everOverride |-> FALSE,
     sessionActive |-> FALSE,
     pre |-> [out |-> OrigStdout, err |-> OrigStderr],
     revert |-> "none",
     call |-> [out |-> OrigStdout, err |-> OrigStderr],
     returned |-> FALSE,
     openAtFlush |-> FALSE,
     flushed |-> [k \in Kinds |-> [done |-> FALSE, msg |-> <<>>]]]

Init ==
    /\ version \in Versions
    /\ \E status \in Statuses : logger = NewLogger(status)
    /\ files = [k \in Kinds |-> NewFile]
    /\ osStdout = OrigStdout
    /\ osStderr = OrigStderr
    /\ logOutput = OrigStderr
    /\ nSessions = 0
    /\ pipes = [s \in Sessions |-> [k \in Kinds |-> NoPipe]]
    /\ drains = [s \in Sessions |-> [k \in Kinds |-> NoDrain]]
    /\ mainPc = "idle"
    /\ customLogs = <<>>
    /\ customErrors = <<>>
    /\ pending = NoPending
    /\ pure = NoCall
    /\ hist = InitHist

TotalWriteCalls == files[LOGGER_TYPE_LOG].writeCalls + files[LOGGER_TYPE_ERROR].writeCalls

\* What one invocation has put out so far: calls of stream.Write and bytes
\* written to the standard streams.  The invocation stops at MaxWriteCalls.
OutputCount == TotalWriteCalls + hist.nativeCount

-----------------------------------------------------------------------------
(* Context.Log, Context.Error and direct calls of Logger.Write *)

\* One call of Write on the caller's Logger, as a step of the invoking thread.
CallWrite(message, xtype, xnative) ==
    LET res == LoggerWrite(version, files, logger, message, xtype, xnative)
    IN /\ files' = res.files
       /\ logger' = AfterWrite(version, logger, res)
       /\ hist' = [hist EXCEPT !.advisories = @ + res.advisories,
                               !.native = @ \/ xnative,
                               !.firstNative = IF xnative /\ @ = "none" THEN xtype ELSE @,
                               !.emitted = IF SelectStream(logger, xtype) = FileH(LOGGER_TYPE_LOG)
                                           THEN @ \o Resolve(message) ELSE @]

ContextLog(m) ==
    /\ mainPc = "idle"
    /\ OutputCount < MaxWriteCalls
    /\ CallWrite(ContextMessage(version, m), LOGGER_TYPE_LOG, FALSE)
    /\ UNCHANGED <<pure, pending, version, osStdout, osStderr, logOutput, nSessions, pipes,
                   drains, mainPc, customLogs, customErrors>>

ContextError(m) ==
    /\ mainPc = "idle"
    /\ OutputCount < MaxWriteCalls
    /\ CallWrite(ContextMessage(version, m), ErrorKind(version), FALSE)
    /\ UNCHANGED <<pure, pending, version, osStdout, osStderr, logOutput, nSessions, pipes,
                   drains, mainPc, customLogs, customErrors>>

\* Logger.Write called by the runtime with xnative = true.
WriteNative(m, xtype) ==
    /\ mainPc = "idle"
    /\ OutputCount < MaxWriteCalls
    /\ hist.advisories < MaxAdvisories
    /\ CallWrite(m, xtype, TRUE)
    /\ UNCHANGED <<pure, pending, version, osStdout, osStderr, logOutput, nSessions, pipes,
                   drains, mainPc, customLogs, customErrors>>

-----------------------------------------------------------------------------
(* Logger.End *)

EndResult(v, fs, l) ==
    IF ~l.Enabled
    THEN [files |-> fs, logger |-> l]
    ELSE [files |-> StreamClose(StreamClose(fs, l.StreamLogs), l.StreamErrors),
          logger |-> IF PtrEnd(v) THEN [l EXCEPT !.Enabled = FALSE] ELSE l]

End ==
    /\ mainPc = "idle"
    /\ \A k \in Kinds : files[k].closeCalls < MaxEndCalls
    /\ LET res == EndResult(version, files, logger)
       IN /\ files' = res.files
          /\ logger' = res.logger
    /\ UNCHANGED <<pure, pending, version, hist, osStdout, osStderr, logOutput, nSessions, pipes,
                   drains, mainPc, customLogs, customErrors>>

-----------------------------------------------------------------------------
(* Logger.OverrideNativeLogs *)

PipeFailures == {"none", "first", "second"}

\* A slip the code could make: os.Stdout is swapped as soon as the first pipe
\* exists, before the second os.Pipe() is tried.
OverrideTargetsEarlySwap(v, fail, out, err, lo, s) ==
    IF fail = "first"
    THEN [out |-> out, err |-> err, log |-> lo]
    ELSE [out |-> PipeW(s, LOGGER_TYPE_LOG),
          err |-> IF fail = "none" THEN PipeW(s, LOGGER_TYPE_ERROR) ELSE err,
          log |-> IF fail = "none" THEN PipeW(s, LogPackageKind(v)) ELSE lo]

\* os.Stdout, os.Stderr and the log package's output when the call returns:
\* both os.Pipe() calls come before the three assignments.
OverrideTargets(v, fail, out, err, lo, s) ==
    IF fail = "none"
    THEN [out |-> PipeW(s, LOGGER_TYPE_LOG),
          err |-> PipeW(s, LOGGER_TYPE_ERROR),
          log |-> PipeW(s, LogPackageKind(v))]
    ELSE [out |-> out, err |-> err, log |-> lo]

\* The receiver l when the call returns.
OverrideLogger(fail, l, out, err, s) ==
    LET l1 == [l EXCEPT !.NativeLogsCache = out, !.NativeErrorsCache = err]
        l2 == [l1 EXCEPT !.WriterLogs = PipeW(s, LOGGER_TYPE_LOG)]
        l3 == [l2 EXCEPT !.WriterErrors = PipeW(s, LOGGER_TYPE_ERROR),
                         !.NativeStreamLogs = Chan(s, LOGGER_TYPE_LOG),
                         !.NativeStreamErrors = Chan(s, LOGGER_TYPE_ERROR)]
    IN CASE fail = "first" -> l1
         [] fail = "second" -> l2
         [] fail = "none" -> l3

\* The pipes os.Pipe() has created when the call returns.
OverridePipes(fail, ps, s) ==
    CASE fail = "first" -> ps
      [] fail = "second" ->
            [ps EXCEPT ![s][LOGGER_TYPE_LOG] = [state |-> "open", buf |-> <<>>]]
      [] fail = "none" ->
            [ps EXCEPT ![s] = [k \in Kinds |-> [state |-> "open", buf |-> <<>>]]]

\* A slip the code could make: the goroutines are not started by the call.
StartDrainsNever(ds, s) == ds

\* go func() { io.Copy(&buf, reader); ch <- buf.String() }(), once per stream:
\* both goroutines exist when the call returns.
StartDrains(ds, s) ==
    [ds EXCEPT ![s] = [k \in Kinds |-> [pc |-> "reading", acc |-> <<>>]]]

OverrideNativeLogs(fail) ==
    /\ mainPc = "idle"
    /\ fail = "first" \/ nSessions < MaxSessions
    /\ LET s == nSessions + 1
           t == OverrideTargets(version, fail, osStdout, osStderr, logOutput, s)
           l == OverrideLogger(fail, logger, osStdout, osStderr, s)
       IN /\ osStdout' = t.out
          /\ osStderr' = t.err
          /\ logOutput' = t.log
          /\ logger' = IF PtrCapture(version) THEN l ELSE logger
          /\ pipes' = OverridePipes(fail, pipes, s)
          /\ nSessions' = IF fail = "first" THEN nSessions ELSE s
          /\ drains' = IF fail = "none" THEN StartDrains(drains, s) ELSE drains
          /\ hist' = IF fail = "none"
                     THEN [hist EXCEPT !.everOverride = TRUE,
                                       !.sessionActive = TRUE,
                                       !.pre = [out |-> osStdout, err |-> osStderr],
                                       !.written = [k \in Kinds |-> <<>>],
                                       !.returned = FALSE,
                                       !.revert = "none",
                                       !.flushed = InitHist.flushed]
                     ELSE hist
    /\ UNCHANGED <<pure, pending, version, files, mainPc, customLogs, customErrors>>

-----------------------------------------------------------------------------
(* The function's own writes to os.Stdout / os.Stderr *)

AmbientTarget(k) == IF k = LOGGER_TYPE_LOG THEN osStdout ELSE osStderr

NativeCount == hist.nativeCount

\* The lengths of one write: up to one byte more than a pipe holds.
WriteLens == 1..(PipeCap + 1)

Min(a, b) == IF a < b THEN a ELSE b

\* f.Write(bytes) on the handle os.Stdout / os.Stderr holds at the call.  Only
\* a write into an open pipe is followed: the thread is inside the call until
\* the pipe has taken every byte.
NativeWriteBegin(k, n) ==
    /\ mainPc = "idle"
    /\ NativeCount + n <= MaxNative
    /\ OutputCount + n <= MaxWriteCalls
    /\ LET h == AmbientTarget(k)
       IN /\ h.t = "pipe"
          /\ pipes[h.s][h.k].state = "open"
          /\ pending' = [h |-> h, k |-> k,
                         data |-> SubSeq(NativeBytes, NativeCount + 1, NativeCount + n)]
    /\ mainPc' = "writing"
    /\ hist' = [hist EXCEPT !.nativeCount = @ + n]
    /\ UNCHANGED <<pure, version, logger, files, osStdout, osStderr, logOutput,
                   nSessions, pipes, drains, customLogs, customErrors>>

\* The pipe takes the bytes it has room for; the call returns after the last.
NativeWriteStep ==
    /\ mainPc = "writing"
    /\ LET h == pending.h
           room == PipeCap - Len(pipes[h.s][h.k].buf)
           n == Min(room, Len(pending.data))
           chunk == SubSeq(pending.data, 1, n)
           rest == SubSeq(pending.data, n + 1, Len(pending.data))
       IN /\ room > 0
          /\ pipes' = [pipes EXCEPT ![h.s][h.k].buf = @ \o chunk]
          /\ hist' = [hist EXCEPT !.written[pending.k] = @ \o chunk,
                                  !.emitted = IF pending.k = LOGGER_TYPE_LOG
                                              THEN @ \o chunk ELSE @]
          /\ pending' = IF rest = <<>> THEN NoPending ELSE [pending EXCEPT !.data = rest]
          /\ mainPc' = IF rest = <<>> THEN "idle" ELSE "writing"
    /\ UNCHANGED <<pure, version, logger, files, osStdout, osStderr, logOutput,
                   nSessions, drains, customLogs, customErrors>>

-----------------------------------------------------------------------------
(* The two drain goroutines of a session *)

\* A slip the code could make: the bytes read last are put in front.
BufferWritePrepend(acc, bytes) == bytes \o acc

\* bytes.Buffer as the target of io.Copy: what is read is appended.
BufferWrite(acc, bytes) == acc \o bytes

\* io.Copy(&buf, reader): move what the pipe holds into the buffer.
DrainRead(s, k) ==
    /\ drains[s][k].pc = "reading"
    /\ pipes[s][k].buf # <<>>
    /\ drains' = [drains EXCEPT ![s][k].acc = BufferWrite(@, pipes[s][k].buf)]
    /\ pipes' = [pipes EXCEPT ![s][k].buf = <<>>]
    /\ UNCHANGED <<pure, pending, version, logger, files, osStdout, osStderr, logOutput,
                   nSessions, mainPc, customLogs, customErrors, hist>>

\* A slip the code could make: a read that finds the pipe empty ends the copy.
EndOfStreamWhenEmpty(p) == p.buf = <<>>

\* The read end reports end-of-stream: nothing is left and the write-end is
\* closed.
EndOfStream(p) == p.buf = <<>> /\ p.state = "closed"

\* io.Copy returns at end-of-stream; the goroutine goes on to its send.
DrainEOF(s, k) ==
    /\ drains[s][k].pc = "reading"
    /\ EndOfStream(pipes[s][k])
    /\ drains' = [drains EXCEPT ![s][k].pc = "sending"]
    /\ UNCHANGED <<pure, pending, version, logger, files, osStdout, osStderr, logOutput,
                   nSessions, pipes, mainPc, customLogs, customErrors, hist>>

-----------------------------------------------------------------------------
(* Logger.RevertNativeLogs *)

\* (*os.File).Close on a pipe write-end; nil and closed handles return an error.
ClosePipe(ps, h) ==
    IF h.t = "pipe" /\ ps[h.s][h.k].state = "open"
    THEN [ps EXCEPT ![h.s][h.k].state = "closed"]
    ELSE ps

RevertKind == IF hist.sessionActive THEN "session"
              ELSE IF hist.everOverride THEN "repeat" ELSE "bare"

\* The handles os.Stdout and os.Stderr are set to.
RevertTargets(l) == [out |-> l.NativeLogsCache, err |-> l.NativeErrorsCache]

\* Entry to the first receive: close the write-ends, put back the handles.
RevertBegin ==
    /\ mainPc = "idle"
    /\ pipes' = ClosePipe(ClosePipe(pipes, logger.WriterLogs), logger.WriterErrors)
    /\ osStdout' = RevertTargets(logger).out
    /\ osStderr' = RevertTargets(logger).err
    /\ logOutput' = RevertTargets(logger).err
    /\ mainPc' = "recvLogs"
    /\ hist' = [hist EXCEPT !.revert = RevertKind,
                            !.sessionActive = FALSE,
                            !.call = [out |-> osStdout, err |-> osStderr],
                            !.returned = FALSE,
                            !.flushed = InitHist.flushed,
                            !.openAtFlush = /\ logger.StreamLogs.t = "file"
                                            /\ logger.StreamErrors.t = "file"
                                            /\ \A k \in Kinds : ~files[k].closed]
    /\ UNCHANGED <<pure, pending, version, logger, files, nSessions, drains, customLogs, customErrors>>

\* The message handed to Write for each stream.
FlushMessage(kind, logsBuf, errorsBuf) == logsBuf

\* A slip the code could make: the buffer is written whatever it holds.
NonEmptyAlways(buffer) == TRUE

\* The test customLogs != "" / customErrors != "".
NonEmpty(buffer) == buffer # <<>>

\* if buffer != "" { l.Write(..., kind, true) }
RevertFlush(kind, received, logsBuf, errorsBuf) ==
    IF NonEmpty(received)
    THEN LET msg == FlushMessage(kind, logsBuf, errorsBuf)
             res == LoggerWrite(version, files, logger, StringMsg(msg), kind, TRUE)
         IN /\ files' = res.files
            /\ logger' = AfterWrite(version, logger, res)
            /\ hist' = [hist EXCEPT !.advisories = @ + res.advisories,
                                    !.native = TRUE,
                                    !.firstNative = IF @ = "none" THEN kind ELSE @,
                                    !.flushed[kind] = [done |-> TRUE, msg |-> msg],
                                    !.returned = (kind = LOGGER_TYPE_ERROR)]
    ELSE /\ UNCHANGED <<files, logger>>
         /\ hist' = [hist EXCEPT !.returned = (kind = LOGGER_TYPE_ERROR)]

\* A slip the code could make: the buffer stays on offer after it was taken
\* (a goroutine that sends in a loop).
CanReceiveAgain(d) == d.pc \in {"sending", "done"}

\* A receive on the unbuffered channel completes when the goroutine is at its
\* one send.
CanReceive(d) == d.pc = "sending"

\* customLogs := <-l.NativeStreamLogs, then the flush of the log buffer.
RevertRecvLogs ==
    /\ mainPc = "recvLogs"
    /\ LET ch == logger.NativeStreamLogs
       IN /\ ch.t = "chan"
          /\ CanReceive(drains[ch.s][ch.k])
          /\ customLogs' = drains[ch.s][ch.k].acc
          /\ drains' = [drains EXCEPT ![ch.s][ch.k].pc = "done"]
          /\ RevertFlush(LOGGER_TYPE_LOG, drains[ch.s][ch.k].acc,
                         drains[ch.s][ch.k].acc, customErrors)
    /\ mainPc' = "recvErrors"
    /\ UNCHANGED <<pure, pending, version, osStdout, osStderr, logOutput, nSessions, pipes, customErrors>>

\* customErrors := <-l.NativeStreamErrors, then the flush of the error buffer.
RevertRecvErrors ==
    /\ mainPc = "recvErrors"
    /\ LET ch == logger.NativeStreamErrors
       IN /\ ch.t = "chan"
          /\ CanReceive(drains[ch.s][ch.k])
          /\ customErrors' = drains[ch.s][ch.k].acc
          /\ drains' = [drains EXCEPT ![ch.s][ch.k].pc = "done"]
          /\ RevertFlush(LOGGER_TYPE_ERROR, drains[ch.s][ch.k].acc,
                         customLogs, drains[ch.s][ch.k].acc)
    /\ mainPc' = "idle"
    /\ UNCHANGED <<pure, pending, version, osStdout, osStderr, logOutput, nSessions, pipes, customLogs>>

-----------------------------------------------------------------------------
(* Specifications *)

DrainStep == \E s \in Sessions, k \in Kinds : DrainRead(s, k) \/ DrainEOF(s, k)

RevertStep == RevertRecvLogs \/ RevertRecvErrors

Next ==
    \/ \E m \in Msgs : ContextLog(m)
    \/ \E m \in Msgs : ContextError(m)
    \/ \E m \in Msgs, k \in Kinds : WriteNative(m, k)
    \/ End
    \/ \E fail \in PipeFailures : OverrideNativeLogs(fail)
    \/ \E k \in Kinds, n \in WriteLens : NativeWriteBegin(k, n)
    \/ NativeWriteStep
    \/ \E s \in Sessions, k \in Kinds : DrainRead(s, k)
    \/ \E s \in Sessions, k \in Kinds : DrainEOF(s, k)
    \/ RevertBegin
    \/ RevertRecvLogs
    \/ RevertRecvErrors

Spec == Init /\ [][Next]_vars

\* The runs of Context.Log, Context.Error and Write over every message shape.
MessageNext ==
    \/ \E m \in Messages : ContextLog(m)
    \/ \E m \in Messages : ContextError(m)
    \/ \E m \in Messages, k \in Kinds : WriteNative(m, k)

MessageSpec == Init /\ [][MessageNext]_vars

\* The Go scheduler runs every runnable goroutine: a drain goroutine that can
\* read or send, and the invoking thread when its receive can complete.
FairSpec == Spec /\ WF_vars(DrainStep) /\ WF_vars(RevertStep) /\ WF_vars(NativeWriteStep)

-----------------------------------------------------------------------------
(* Response builders and the Id chosen by NewLogger *)

\* map[string]string values: the nil map and the maps over HeaderKeys.
GoNil == [nil |-> TRUE, m |-> [k \in {} |-> ""]]
GoMap(f) == [nil |-> FALSE, m |-> f]
EmptyMap == GoMap([k \in {} |-> ""])

HeaderKeys == {"content-type", "location", "x-a"}
HeaderValues == {"old"}
HeaderMaps == {GoNil} \cup
              {GoMap(f) : f \in UNION {[D -> HeaderValues] : D \in SUBSET HeaderKeys}}

StatusCodes == {0, 200, 302}
Urls == {"/new"}

\* headers[key] = value
MapSet(h, key, value) ==
    GoMap([k \in DOMAIN h.m \cup {key} |-> IF k = key THEN value ELSE h.m[k]])

Has(h, key) == ~h.nil /\ key \in DOMAIN h.m

\* A call that ends in a run-time panic returns nothing.
Panic == [panic |-> TRUE, Body |-> "", StatusCode |-> 0, Headers |-> GoNil]

Returned(body, statusCode, headers) ==
    [panic |-> FALSE, Body |-> body, StatusCode |-> statusCode, Headers |-> headers]

JsonString == "json(v)"

\* Response.Send / Text / Binary of package types.
ResponseSend(body, statusCode, headers) ==
    Returned(body,
             IF statusCode = 0 THEN 200 ELSE statusCode,
             IF headers.nil THEN EmptyMap ELSE headers)

\* Response.Json of package types.
ResponseJson(marshalOk, statusCode, headers) ==
    LET h == IF headers.nil THEN EmptyMap ELSE headers
        sc == IF statusCode = 0 THEN 200 ELSE statusCode
        h1 == MapSet(h, "content-type", "application/json")
    IN IF ~marshalOk
       THEN ResponseSend("Error encoding JSON.", 500, GoNil)
       ELSE ResponseSend(JsonString, sc, h1)

\* Response.Redirect of package types.
ResponseRedirect(url, statusCode, headers) ==
    LET h == IF headers.nil THEN EmptyMap ELSE headers
        sc == IF statusCode = 0 THEN 301 ELSE statusCode
    IN ResponseSend("", sc, MapSet(h, "location", url))

\* ResponseOption values of package openruntimes and their application in
\* the order of the argument list.
WithHeaders(headers) == [set |-> "Headers", headers |-> headers, statusCode |-> 0]
WithStatusCode(statusCode) == [set |-> "StatusCode", headers |-> GoNil, statusCode |-> statusCode]

NewOptions == [Headers |-> GoNil, StatusCode |-> 0, enabledSetters |-> {}]

RECURSIVE ApplyOptions(_, _)
ApplyOptions(options, optionalSetters) ==
    IF optionalSetters = <<>> THEN options
    ELSE LET opt == Head(optionalSetters)
             o == IF opt.set = "Headers"
                  THEN [options EXCEPT !.Headers = opt.headers,
                                       !.enabledSetters = @ \cup {"Headers"}]
                  ELSE [options EXCEPT !.StatusCode = opt.statusCode,
                                       !.enabledSetters = @ \cup {"StatusCode"}]
         IN ApplyOptions(o, Tail(optionalSetters))

\* ContextResponse.Binary / Text / Send of package openruntimes.
ContextBinary(body, optionalSetters) ==
    LET options == ApplyOptions(NewOptions, optionalSetters)
    IN Returned(body,
                IF "StatusCode" \in options.enabledSetters THEN options.StatusCode ELSE 200,
                IF "Headers" \in options.enabledSetters THEN options.Headers ELSE EmptyMap)

\* ContextResponse.Json of package openruntimes; an assignment to an entry of
\* a nil map panics.
ContextJson(marshalOk, optionalSetters) ==
    LET options == ApplyOptions(NewOptions, optionalSetters)
        headers == IF "Headers" \in options.enabledSetters THEN options.Headers ELSE EmptyMap
    IN IF headers.nil THEN Panic
       ELSE LET s1 == Append(optionalSetters,
                             WithHeaders(MapSet(headers, "content-type", "application/json")))
            IN IF ~marshalOk
               THEN ContextBinary("Error encoding JSON.", Append(s1, WithStatusCode(500)))
               ELSE ContextBinary(JsonString, s1)

\* ContextResponse.Redirect of package openruntimes.
ContextRedirect(url, optionalSetters) ==
    LET options == ApplyOptions(NewOptions, optionalSetters)
        headers == IF "Headers" \in options.enabledSetters THEN options.Headers ELSE EmptyMap
    IN IF headers.nil THEN Panic
       ELSE ContextBinary("", <<WithStatusCode(301)>> \o
                              Append(optionalSetters, WithHeaders(MapSet(headers, "location", url))))

\* What a caller passes: a status code or none, a headers map or none.  With
\* the positional parameters of package types "none" is the zero value (0,
\* nil); with the options of package openruntimes it is a missing option.
CallerArgs ==
    {a \in [statusGiven : BOOLEAN, statusCode : StatusCodes,
            headersGiven : BOOLEAN, headers : HeaderMaps] :
        /\ ~a.statusGiven => a.statusCode = 0
        /\ ~a.headersGiven => a.headers = GoNil}

ArgsOf(v, a) ==
    v # "openruntimes" => /\ a.statusGiven <=> a.statusCode # 0
                          /\ a.headersGiven <=> ~a.headers.nil

Setters(a) ==
    (IF a.statusGiven THEN <<WithStatusCode(a.statusCode)>> ELSE <<>>)
    \o (IF a.headersGiven THEN <<WithHeaders(a.headers)>> ELSE <<>>)

JsonResult(v, marshalOk, a) ==
    IF v = "openruntimes" THEN ContextJson(marshalOk, Setters(a))
    ELSE ResponseJson(marshalOk, a.statusCode, a.headers)

RedirectResult(v, url, a) ==
    IF v = "openruntimes" THEN ContextRedirect(url, Setters(a))
    ELSE ResponseRedirect(url, a.statusCode, a.headers)

\* The Id NewLogger gives the Logger it returns; a Logger whose files could
\* not be opened is returned as Logger{}.
Ids == {"", "x"}
Envs == {"", "development", "production"}
GeneratedIds == {"18f3a2c", "18f3a2d"}

LoggerId(v, status, id, env, generated) ==
    IF ~(status = "" \/ status = "enabled") THEN ""
    ELSE IF v = "main"
         THEN IF env = "development" THEN "dev"
              ELSE IF id = "" THEN generated ELSE id
         ELSE IF id = ""
              THEN IF env = "development" THEN "dev" ELSE generated
              ELSE id

NewLoggerResult(v, status, id, env, generated, openOk) ==
    IF (status = "" \/ status = "enabled") /\ ~openOk
    THEN [Enabled |-> FALSE, Id |-> "", err |-> TRUE]
    ELSE [Enabled |-> NewLogger(status).Enabled,
          Id |-> LoggerId(v, status, id, env, generated),
          err |-> FALSE]

NoArgs == [statusGiven |-> FALSE, statusCode |-> 0, headersGiven |-> FALSE, headers |-> GoNil]

Call(op, a, marshalOk, url, status, id, env, out) ==
    [op |-> op, args |-> a, marshalOk |-> marshalOk, url |-> url,
     status |-> status, id |-> id, env |-> env, out |-> out]

CallJson(marshalOk, a) ==
    /\ ArgsOf(version, a)
    /\ pure' = Call("Json", a, marshalOk, "", "", "", "", JsonResult(version, marshalOk, a))
    /\ UNCHANGED <<version, logger, files, osStdout, osStderr, logOutput, nSessions,
                   pipes, drains, mainPc, customLogs, customErrors, pending, hist>>

CallRedirect(url, a) ==
    /\ ArgsOf(version, a)
    /\ pure' = Call("Redirect", a, TRUE, url, "", "", "", RedirectResult(version, url, a))
    /\ UNCHANGED <<version, logger, files, osStdout, osStderr, logOutput, nSessions,
                   pipes, drains, mainPc, customLogs, customErrors, pending, hist>>

CallNewLogger(status, id, env, generated, openOk) ==
    /\ pure' = Call("NewLogger", NoArgs, TRUE, "", status, id, env,
                    NewLoggerResult(version, status, id, env, generated, openOk))
    /\ UNCHANGED <<version, logger, files, osStdout, osStderr, logOutput, nSessions,
                   pipes, drains, mainPc, customLogs, customErrors, pending, hist>>

CallNext ==
    \/ \E marshalOk \in BOOLEAN, a \in CallerArgs : CallJson(marshalOk, a)
    \/ \E url \in Urls, a \in CallerArgs : CallRedirect(url, a)
    \/ \E status \in Statuses, id \in Ids, env \in Envs, generated \in GeneratedIds,
          openOk \in BOOLEAN : CallNewLogger(status, id, env, generated, openOk)

CallSpec == Init /\ [][CallNext]_vars

-----------------------------------------------------------------------------
(* Properties *)

Contains(seq, sub) ==
    \E i \in 0..(Len(seq) - Len(sub)) : SubSeq(seq, i + 1, i + Len(sub)) = sub

InRevert == mainPc \in {"recvLogs", "recvErrors"}

\* C1: a RevertNativeLogs call that follows a successful OverrideNativeLogs
\* never deadlocks: while it waits for a drain buffer, some goroutine can
\* still take a step.
C1_RevertNeverBlocks ==
    (InRevert /\ hist.revert = "session") => ENABLED Next

\* C2: when RevertNativeLogs has returned on a Logger whose destinations were
\* open, the bytes written to standard output during the session are in the
\* log destination and those written to standard error are in the error
\* destination.
C2_NoCapturedByteLost ==
    (hist.returned /\ hist.revert = "session" /\ hist.openAtFlush) =>
        \A k \in Kinds : Contains(files[k].content, hist.written[k])

\* C3: the message RevertNativeLogs writes to the error destination is the
\* buffer drained from the standard-error pipe, and the message it writes to
\* the log destination is the buffer drained from the standard-output pipe.
C3_SymmetricFlush ==
    hist.returned =>
        /\ hist.flushed[LOGGER_TYPE_LOG].done =>
              hist.flushed[LOGGER_TYPE_LOG].msg = customLogs
        /\ hist.flushed[LOGGER_TYPE_ERROR].done =>
              hist.flushed[LOGGER_TYPE_ERROR].msg = customErrors

\* C4: once RevertNativeLogs has run after a successful OverrideNativeLogs,
\* os.Stdout and os.Stderr are the handles installed before that
\* OverrideNativeLogs call.
C4_HandlesRestored ==
    hist.revert = "session" =>
        /\ osStdout = hist.pre.out
        /\ osStderr = hist.pre.err

\* C5: the advisory line is emitted exactly once, by the first native write,
\* and never before one.
C5_AdvisoryOnce ==
    /\ hist.native => hist.advisories = 1
    /\ ~hist.native => hist.advisories = 0

\* C6: Context.Error leaves the log destination unchanged and Context.Log
\* leaves the error destination unchanged.
C6_ErrorRouting ==
    [][/\ (\E m \in Msgs : ContextError(m)) =>
              files'[LOGGER_TYPE_LOG] = files[LOGGER_TYPE_LOG]
       /\ (\E m \in Msgs : ContextLog(m)) =>
              files'[LOGGER_TYPE_ERROR] = files[LOGGER_TYPE_ERROR]]_vars

\* C7: while Enabled is false no step performs a write operation on a
\* destination handle or changes a destination.
C7_DisabledNoWrites ==
    [][~logger.Enabled =>
          \A k \in Kinds : /\ files'[k].writeCalls = files[k].writeCalls
                           /\ files'[k].content = files[k].content]_vars

\* C8: each destination is closed at most once, and once it has been closed
\* the Logger is disabled.
C8_EndIdempotent ==
    \A k \in Kinds : /\ files[k].closeCalls <= 1
                     /\ files[k].closeCalls > 0 => ~logger.Enabled

\* C9: an OverrideNativeLogs call in which either os.Pipe() fails leaves
\* os.Stdout, os.Stderr and the log package's output as they were.
C9_OverrideAllOrNothing ==
    [][(\E fail \in {"first", "second"} : OverrideNativeLogs(fail)) =>
          /\ osStdout' = osStdout
          /\ osStderr' = osStderr
          /\ logOutput' = logOutput]_vars

\* C9 witness: the second os.Pipe() has failed after the first succeeded and
\* the process streams are still the original ones.
C9_Witness ==
    /\ logger.WriterLogs.t = "pipe"
    /\ logger.WriterErrors.t = "nil"
    /\ pipes[1][LOGGER_TYPE_LOG].state = "open"
    /\ pipes[1][LOGGER_TYPE_ERROR].state = "absent"
    /\ osStdout = OrigStdout
    /\ osStderr = OrigStderr

\* C10: RevertNativeLogs on a Logger with no successful OverrideNativeLogs
\* before it leaves os.Stdout and os.Stderr as they were at the call, writes
\* nothing and does not block.
C10_BareRevertHarmless ==
    hist.revert = "bare" =>
        /\ osStdout = hist.call.out
        /\ osStderr = hist.call.err
        /\ ~hist.flushed[LOGGER_TYPE_LOG].done
        /\ ~hist.flushed[LOGGER_TYPE_ERROR].done
        /\ InRevert => ENABLED Next

\* C11: an OverrideNativeLogs call made while a capture session is active is
\* rejected: it leaves os.Stdout, os.Stderr, the handles saved in
\* NativeLogsCache / NativeErrorsCache and the drain goroutines as they were.
C11_NestedOverrideRejected ==
    [][(hist.sessionActive /\ \E fail \in PipeFailures : OverrideNativeLogs(fail)) =>
          /\ osStdout' = osStdout
          /\ osStderr' = osStderr
          /\ logger'.NativeLogsCache = logger.NativeLogsCache
          /\ logger'.NativeErrorsCache = logger.NativeErrorsCache
          /\ drains' = drains]_vars

WithoutAdvisory(content) == SelectSeq(content, LAMBDA x : x # Advisory[1])

LogWritable == logger.StreamLogs.t = "file" /\ ~files[LOGGER_TYPE_LOG].closed

\* C12 (as stated): after RevertNativeLogs has returned, the log destination
\* holds the structured lines and the bytes written to standard output in the
\* order they were emitted.
C12_OriginalOrder ==
    (hist.returned /\ hist.revert = "session" /\ hist.openAtFlush /\ LogWritable) =>
        WithoutAdvisory(files[LOGGER_TYPE_LOG].content) = hist.emitted

\* C12 (amended): when RevertNativeLogs receives the standard-output buffer,
\* the buffer is the session's standard-output bytes in their write order, and
\* an open log destination becomes what it held before (the structured lines
\* written so far), then the advisory if the latch was unset, then that
\* buffer as one block.
C12_NativeAppendedAtRevert ==
    [][(RevertRecvLogs /\ hist.revert = "session") =>
          LET buf == hist.written[LOGGER_TYPE_LOG]
              before == files[LOGGER_TYPE_LOG].content
          IN /\ customLogs' = buf
             /\ files'[LOGGER_TYPE_LOG].content =
                   IF buf = <<>> \/ ~LogWritable THEN before
                   ELSE before
                        \o (IF logger.IncludesNativeInfo THEN <<>> ELSE Advisory)
                        \o buf]_vars

\* C12 witness: "a" went to standard output before ctx.Log("m") and "b" after
\* it; RevertNativeLogs has returned and the log destination holds the line,
\* the advisory and then "ab".
C12_Witness ==
    /\ hist.returned
    /\ hist.revert = "session"
    /\ hist.emitted = <<"a", "m", "\n", "b">>
    /\ files[LOGGER_TYPE_LOG].content = <<"m", "\n">> \o Advisory \o <<"a", "b">>

Last(seq) == seq[Len(seq)]

\* C13: every Write stores its message followed by a newline: a destination
\* that holds anything ends with a newline, and so does the advisory line
\* wherever it stands in a destination.
C13_LineTerminated ==
    \A k \in Kinds :
        LET content == files[k].content
        IN /\ content # <<>> => Last(content) = "\n"
           /\ \A i \in 1..Len(content) :
                 content[i] = Advisory[1] => (i < Len(content) /\ content[i + 1] = "\n")

\* C14: a Context.Log or Context.Error call on a Logger with open
\* destinations stores the message as the resolution precedence gives it
\* (string verbatim, Log wrapper by String(), value by its JSON encoding,
\* else by the generic rendering), followed by at most one newline.
C14_ResolutionPrecedence ==
    [][\A m \in Messages :
          ((ContextLog(m) \/ ContextError(m))
           /\ logger.Enabled /\ \A k \in Kinds : ~files[k].closed) =>
              \E k \in Kinds :
                  /\ files'[k].content \in
                        {files[k].content \o Resolve(m),
                         files[k].content \o Resolve(m) \o <<"\n">>}
                  /\ \A j \in Kinds \ {k} : files'[j] = files[j]]_vars

\* C15: Json on a value whose serialization fails returns status code 500,
\* the body "Error encoding JSON." and headers that hold
\* content-type = application/json, whatever status code and headers the
\* caller supplied.
C15_JsonFailure ==
    (pure.op = "Json" /\ ~pure.marshalOk) =>
        /\ ~pure.out.panic
        /\ pure.out.StatusCode = 500
        /\ pure.out.Body = "Error encoding JSON."
        /\ Has(pure.out.Headers, "content-type")
        /\ pure.out.Headers.m["content-type"] = "application/json"

\* C16: Redirect(url, ...) returns an empty body, headers that are the
\* caller's headers with location set to url, and the caller's status code,
\* or 301 when the caller gave none.
C16_Redirect ==
    pure.op = "Redirect" =>
        LET given == IF pure.args.headersGiven /\ ~pure.args.headers.nil
                     THEN pure.args.headers ELSE EmptyMap
        IN /\ ~pure.out.panic
           /\ pure.out.Body = ""
           /\ pure.out.Headers = MapSet(given, "location", pure.url)
           /\ pure.out.StatusCode =
                 IF pure.args.statusGiven THEN pure.args.statusCode ELSE 301

\* C17: an enabled Logger returned by NewLogger for a non-empty id has that
\* id as its Id in every environment; for an empty id its Id is "dev" in the
\* development environment and a generated value otherwise.
C17_LoggerId ==
    (pure.op = "NewLogger" /\ pure.out.Enabled) =>
        /\ pure.id # "" => pure.out.Id = pure.id
        /\ (pure.id = "" /\ pure.env = "development") => pure.out.Id = "dev"
        /\ (pure.id = "" /\ pure.env # "development") => pure.out.Id \in GeneratedIds

\* C18: under fair scheduling every write to the redirected os.Stdout or
\* os.Stderr returns, also one longer than the pipe holds.
C18_NativeWriteCompletes == (mainPc = "writing") ~> (mainPc = "idle")

\* C18 witness: the thread is inside a write and the pipe is full, so the
\* write goes on only after the drain goroutine has read.
C18_Witness ==
    /\ mainPc = "writing"
    /\ Len(pipes[pending.h.s][pending.h.k].buf) = PipeCap
    /\ drains[pending.h.s][pending.h.k].pc = "reading"

DrainOf(l, k) ==
    LET ch == IF k = LOGGER_TYPE_LOG THEN l.NativeStreamLogs ELSE l.NativeStreamErrors
    IN drains[ch.s][ch.k]

\* C19: a drain goroutine is at its send or past it only when its pipe's
\* write-end is closed and the pipe is empty; a goroutine whose buffer has
\* been received never sends again; and when RevertNativeLogs has returned,
\* both goroutines of the session have handed over their buffer and ended.
C19_OneShotRendezvous ==
    [][/\ \A s \in Sessions, k \in Kinds :
             /\ drains[s][k].pc \in {"sending", "done"} =>
                   (pipes[s][k].state = "closed" /\ pipes[s][k].buf = <<>>)
             /\ drains[s][k].pc = "done" => drains'[s][k] = drains[s][k]
       /\ (hist.returned /\ hist.revert = "session") =>
             \A k \in Kinds : DrainOf(logger, k).pc = "done"]_vars

\* C19 witness: RevertNativeLogs has returned with captured bytes in hand and
\* both goroutines of the session have ended.
C19_Witness ==
    /\ hist.returned
    /\ hist.revert = "session"
    /\ customLogs # <<>>
    /\ customErrors # <<>>
    /\ \A k \in Kinds : DrainOf(logger, k).pc = "done"

\* C20: a RevertNativeLogs whose session wrote nothing to a stream makes no
\* Write when it receives that stream's buffer: destinations, write counts and
\* the advisory latch stay as they are; and the latch is unset as long as no
\* native write has been made.
C20_EmptyBufferNoWrite ==
    [][/\ (RevertRecvLogs /\ hist.revert = "session"
              /\ hist.written[LOGGER_TYPE_LOG] = <<>>) =>
             (files' = files /\ logger' = logger)
       /\ (RevertRecvErrors /\ hist.revert = "session"
              /\ hist.written[LOGGER_TYPE_ERROR] = <<>>) =>
             (files' = files /\ logger' = logger)
       /\ ~hist.native => ~logger.IncludesNativeInfo]_vars

\* C20 witness: a session without native output has been reverted after a
\* Context.Log call; the latch is unset and no advisory was written.
C20_Witness ==
    /\ hist.returned
    /\ hist.revert = "session"
    /\ hist.written = [k \in Kinds |-> <<>>]
    /\ files[LOGGER_TYPE_LOG].content = <<"m", "\n">>
    /\ ~logger.IncludesNativeInfo
    /\ hist.advisories = 0

\* C21: the advisory line is only in the destination of the kind of the
\* first native write; after a session in which both streams received bytes
\* that is the log destination, and the error destination holds no advisory.
C21_AdvisoryOneDestination ==
    \A k \in Kinds :
        Contains(files[k].content, Advisory) => hist.firstNative = k

\* C22: a RevertNativeLogs call made after the buffers of the session have
\* been received and written, with no successful OverrideNativeLogs in
\* between, writes no captured buffer to either destination.
C22_FlushedOncePerSession ==
    hist.revert = "repeat" =>
        \A k \in Kinds : ~hist.flushed[k].done

\* C22 witness: RevertNativeLogs has been called again after a session whose
\* standard-output bytes are in the log destination.
C22_Witness ==
    /\ hist.revert = "repeat"
    /\ InRevert
    /\ customLogs # <<>>
    /\ Contains(files[LOGGER_TYPE_LOG].content, customLogs)

====
